---- MODULE Spec2Model ----
(***************************************************************************)
(* Model of InferGoogleVisionImageProperties.run()                         *)
(* (infer_google_vision_image_properties_process.py): the task object's    *)
(* fields, the outputs it writes, the calls it makes to the host framework *)
(* and to the annotation service, and the position of run() in its body.   *)
(*                                                                         *)
(* Numbers.  A pixel_fraction is a Python float (IEEE-754 binary64).  The  *)
(* model draws pixel fractions from the dyadic values n / 2^FracBits, which *)
(* binary64 (and the float32 of the service's wire format) holds exactly,  *)
(* and carries each one as its numerator n.  Sums of such values are exact *)
(* in binary64, so sum() is integer addition of numerators.  The division  *)
(* and the multiplication of line 122 are NOT exact: FloatDiv and FloatMul *)
(* compute the correctly rounded binary64 result (round to nearest, ties   *)
(* to even) on explicit 53-bit significands, and FloatToInt truncates as   *)
(* int() does.                                                             *)
(*                                                                         *)
(* Image.  Every rectangle run() draws spans the rows 0..image_height, so  *)
(* all rows of the strip are equal; the image is kept as the list of       *)
(* rectangles drawn onto the blank image, and Pixel reads a column's       *)
(* colour off that list.                                                   *)
(***************************************************************************)
EXTENDS Integers, Sequences, FiniteSets

\* ------------------------------------------------------------------------
\* Bounds of the model
\* ------------------------------------------------------------------------
MaxRuns == 2        \* run() invocations on one task instance
MaxPalette == 3     \* entries of dominant_colors.colors
MaxWeight == 3      \* pixel-fraction numerators 0..MaxWeight
MaxScale == 3       \* scaling factors 1..MaxScale of the normalization claim
FracBits == 10      \* pixel fractions are the values n / 2^FracBits

\* ------------------------------------------------------------------------
\* IEEE-754 binary64 arithmetic of line 122
\* A float is [sig |-> <<b1,...,b53>>, exp |-> e], b1 = 1, of value
\* (b1...b53 as a binary integer) * 2^e; zero has the empty significand.
\* ------------------------------------------------------------------------
Precision == 53

Zero == [sig |-> <<>>, exp |-> 0]

Zeros(n) == [i \in 1..n |-> 0]

\* the binary integer a bit string spells, most significant bit first
RECURSIVE BitsToInt(_)
BitsToInt(bits) ==
    IF bits = <<>> THEN 0
    ELSE IF Len(bits) = 1 THEN bits[1]
    ELSE LET half == Len(bits) \div 2
             high == BitsToInt(SubSeq(bits, 1, half))
             low == BitsToInt(SubSeq(bits, half + 1, Len(bits)))
         IN  high * 2^(Len(bits) - half) + low

\* n < 2^width as a bit string of that width
FixedBits(n, width) == [i \in 1..width |-> (n \div 2^(width - i)) % 2]

\* n > 0 as a bit string with a leading 1; the empty string for 0
IntToBits(n) ==
    IF n = 0 THEN <<>>
    ELSE LET width == CHOOSE w \in 1..31 : 2^(w - 1) <= n /\ (w = 31 \/ n < 2^w)
         IN  FixedBits(n, width)

\* bits + 1 as a bit string of the same length, for bits that are not all ones
Increment(bits) ==
    LET last0 == CHOOSE i \in 1..Len(bits) :
                     bits[i] = 0 /\ \A j \in (i + 1)..Len(bits) : bits[j] = 1
    IN  [i \in 1..Len(bits) |->
            IF i < last0 THEN bits[i] ELSE IF i = last0 THEN 1 ELSE 0]

\* The float nearest to (bits as an integer, plus a nonzero fraction below the
\* last bit when sticky) * 2^exp; bits has a leading 1.  Ties go to the even
\* significand.
RoundNearestEven(bits, sticky, exp) ==
    LET L == Len(bits) IN
    IF L <= Precision
    THEN [sig |-> bits \o Zeros(Precision - L), exp |-> exp - (Precision - L)]
    ELSE LET keep == SubSeq(bits, 1, Precision)
             guard == bits[Precision + 1]
             rest == sticky \/ \E i \in (Precision + 2)..L : bits[i] = 1
             up == guard = 1 /\ (rest \/ keep[Precision] = 1)
             e == exp + (L - Precision)
         IN  IF ~up THEN [sig |-> keep, exp |-> e]
             ELSE IF \A i \in 1..Precision : keep[i] = 1
                  THEN [sig |-> <<1>> \o Zeros(Precision - 1), exp |-> e + 1]
                  ELSE [sig |-> Increment(keep), exp |-> e]

\* <<n', d', e'>> with d' <= n' < 2d' and (n / d) * 2^e = (n' / d') * 2^e'
RECURSIVE Normalize(_, _, _)
Normalize(n, d, e) ==
    IF n < d THEN Normalize(2 * n, d, e - 1)
    ELSE IF n >= 2 * d THEN Normalize(n, 2 * d, e + 1)
    ELSE <<n, d, e>>

\* Long division, ChunkBits bits at a time: the next chunks * ChunkBits bits
\* of the binary expansion of r / d (r < d), and the remainder left
ChunkBits == 9

RECURSIVE LongDivision(_, _, _)
LongDivision(r, d, chunks) ==
    IF chunks = 0 THEN [bits |-> <<>>, rem |-> r]
    ELSE LET shifted == r * 2^ChunkBits
             tail == LongDivision(shifted % d, d, chunks - 1)
         IN  [bits |-> FixedBits(shifted \div d, ChunkBits) \o tail.bits,
              rem |-> tail.rem]

\* chunks of quotient bits that hold the Precision significand bits after the
\* leading 1 and at least the guard bit
DivChunks == (Precision + ChunkBits - 1) \div ChunkBits

\* float(num) / float(den) for naturals num >= 0, den > 0 that binary64 holds
\* exactly: the leading 1, DivChunks chunks of quotient bits, what is left of
\* the quotient as the sticky flag, rounded
FloatDiv(num, den) ==
    IF num = 0 THEN Zero
    ELSE LET nde == Normalize(num, den, 0)
             q == LongDivision(nde[1] - nde[2], nde[2], DivChunks)
         IN  RoundNearestEven(<<1>> \o q.bits, q.rem # 0,
                              nde[3] - DivChunks * ChunkBits)

\* bits * c as a bit string with a leading 1, computed on limbs of LimbBits
\* bits from the least significant limb up (c < 2^11, so a limb's product and
\* carry stay below 2^31)
LimbBits == 20

RECURSIVE MulBits(_, _, _)
MulBits(bits, c, carry) ==
    IF Len(bits) <= LimbBits THEN IntToBits(BitsToInt(bits) * c + carry)
    ELSE LET cut == Len(bits) - LimbBits
             v == BitsToInt(SubSeq(bits, cut + 1, Len(bits))) * c + carry
         IN  MulBits(SubSeq(bits, 1, cut), c, v \div 2^LimbBits)
                 \o FixedBits(v % 2^LimbBits, LimbBits)

\* x * float(c) for an integer c > 0 that binary64 holds exactly
FloatMul(x, c) ==
    IF x.sig = <<>> THEN Zero
    ELSE RoundNearestEven(MulBits(x.sig, c, 0), FALSE, x.exp)

\* int(x) for x >= 0: truncation
FloatToInt(x) ==
    IF x.sig = <<>> \/ Precision + x.exp <= 0 THEN 0
    ELSE BitsToInt(SubSeq(x.sig, 1, Precision + x.exp))

\* Mutants of line 122.  Unnormalized: the fraction n / 2^FracBits is taken as
\* already normalized and the total is not divided out.  Misparenthesized: the
\* quotient is truncated before it is multiplied.
BlockWidthUnnormalized(pixel_fraction, pixel_fraction_total, total_width) ==
    FloatToInt(FloatMul(FloatDiv(pixel_fraction, 2^FracBits), total_width))

BlockWidthMisparenthesized(pixel_fraction, pixel_fraction_total, total_width) ==
    FloatToInt(FloatDiv(pixel_fraction, pixel_fraction_total)) * total_width

\* line 122: int((entry.pixel_fraction / pixel_fraction_total) * self.total_width)
BlockWidth(pixel_fraction, pixel_fraction_total, total_width) ==
    FloatToInt(FloatMul(FloatDiv(pixel_fraction, pixel_fraction_total), total_width))

\* ------------------------------------------------------------------------
\* The task object: InferGoogleVisionImageProperties.__init__ (lines 42-59)
\* ------------------------------------------------------------------------
total_width == 1200
image_height == 800
color == <<0, 255, 255>>

None == "None"
NotSet == "<not set>"
Background == <<0, 0, 0>>          \* Image.new("RGB", size): a black image

VARIABLES
    pc,             \* where run() stands, or idle / ended / raised between runs
    runs,           \* run() invocations begun so far
    param,          \* param.google_application_credentials
    client,         \* self.client
    environ,        \* os.environ['GOOGLE_APPLICATION_CREDENTIALS']
    response,       \* run()'s local: the service's response
    image,          \* run()'s local: the strip, as the rectangles drawn on it
    x0,             \* run()'s local: the drawing cursor
    output0,        \* output 0: the images set with set_image
    output_dict,    \* output 1: output_dict.data, a list of key/value items
    output_box,     \* output 2: the objects of the detection output
    output3,        \* output 3: the forwarded input image
    error,          \* the exception the current run raised, or none
    trace           \* calls made by the current run, in order

vars == <<pc, runs, param, client, environ, response, image, x0, output0,
          output_dict, output_box, output3, error, trace>>

\* ------------------------------------------------------------------------
\* Inputs: what the parameters and the annotation service can hold
\* ------------------------------------------------------------------------
Credentials == {"", "key.json"}

Colors == {<<255, 0, 0>>, <<0, 255, 0>>}

Entry(rgb, n) == [color |-> rgb, pixel_fraction |-> n]

\* the clockwise corners (top-left, top-right, bottom-right, bottom-left) of a box
Corners(box) ==
    << [x |-> box.x, y |-> box.y],
       [x |-> box.x + box.w, y |-> box.y],
       [x |-> box.x + box.w, y |-> box.y + box.h],
       [x |-> box.x, y |-> box.y + box.h] >>

CropBoxes == { [x |-> 10, y |-> 20, w |-> 100, h |-> 200],
               [x |-> 0, y |-> 0, w |-> 50, h |-> 50] }

\* crop_hints_annotation.crop_hints: no hint, or one hint whose bounding_poly
\* holds the first 0..4 corners of a box
CropHints ==
    {<<>>} \cup { <<SubSeq(Corners(box), 1, k)>> : box \in CropBoxes, k \in 0..4 }

\* palettes the service answers with in the task's runs
RunPalettes ==
    { <<>>,
      <<Entry(<<255, 0, 0>>, 0)>>,
      <<Entry(<<255, 0, 0>>, 1)>>,
      <<Entry(<<255, 0, 0>>, 1), Entry(<<0, 255, 0>>, 1)>>,
      <<Entry(<<255, 0, 0>>, 2), Entry(<<0, 255, 0>>, 2), Entry(<<255, 0, 0>>, 3)>> }

\* numerators for which the binary64 quotient times total_width falls just
\* below the integer the exact quotient gives (55/600, 79/600 and 466/600)
RoundingSamples == {55, 79, 466}

PixelFractions == (0..MaxWeight) \cup RoundingSamples

RECURSIVE SeqsUpTo(_, _)
SeqsUpTo(S, n) ==
    IF n = 0 THEN {<<>>}
    ELSE LET shorter == SeqsUpTo(S, n - 1)
         IN  shorter \cup { Append(q, e) : q \in { p \in shorter : Len(p) = n - 1 }, e \in S }

\* the other colour of Colors
Other(rgb) == CHOOSE other \in Colors : other # rgb

\* palettes of the strip renderer's specification: every sequence of up to
\* MaxPalette pixel fractions, its entries coloured in turn from either colour
RenderPalettes ==
    { [i \in 1..Len(fractions) |->
          Entry(IF i % 2 = 1 THEN first ELSE Other(first), fractions[i])] :
      fractions \in SeqsUpTo(PixelFractions, MaxPalette), first \in Colors }

NoResponse == [colors |-> <<>>, crop_hints |-> <<>>]

\* ------------------------------------------------------------------------
\* The strip renderer: run(), lines 105-125
\* ------------------------------------------------------------------------
\* line 110: sum(entry.pixel_fraction for entry in color_data)
RECURSIVE PixelFractionTotal(_)
PixelFractionTotal(color_data) ==
    IF color_data = <<>> THEN 0
    ELSE PixelFractionTotal(SubSeq(color_data, 1, Len(color_data) - 1))
             + color_data[Len(color_data)].pixel_fraction

\* line 122, for each entry of the loop
BlockWidths(color_data) ==
    LET pixel_fraction_total == PixelFractionTotal(color_data)
    IN  [i \in 1..Len(color_data) |->
            BlockWidth(color_data[i].pixel_fraction, pixel_fraction_total, total_width)]

RECURSIVE SumUpTo(_, _)
SumUpTo(widths, n) == IF n = 0 THEN 0 ELSE SumUpTo(widths, n - 1) + widths[n]

\* lines 113-125: the draw.rectangle calls of the loop, in order; the cursor x0
\* before entry i is the sum of the earlier block widths
DrawColorBlocks(color_data) ==
    LET widths == BlockWidths(color_data)
    IN  [i \in 1..Len(color_data) |->
            [x0 |-> SumUpTo(widths, i - 1), y0 |-> 0,
             x1 |-> SumUpTo(widths, i), y1 |-> image_height,
             fill |-> color_data[i].color]]

\* line 124, ImageDraw.rectangle([x0, y0, x1, y1], fill): the box includes both
\* end points, and only the part of it inside the image is painted
Covers(rect, column) ==
    /\ column \in 0..(total_width - 1)
    /\ rect.x0 <= column
    /\ column <= rect.x1

PaintedColumns(rect) == { column \in 0..(total_width - 1) : Covers(rect, column) }

\* the colour of a column of the strip: the last rectangle drawn over it
Pixel(img, column) ==
    LET over == { i \in 1..Len(img) : Covers(img[i], column) }
    IN  IF over = {} THEN Background
        ELSE img[CHOOSE i \in over : \A j \in over : j <= i].fill

\* ------------------------------------------------------------------------
\* Region extraction: run(), lines 137-146
\* ------------------------------------------------------------------------
\* lines 140-143
RegionBox(vertices) ==
    LET x_box == vertices[1].x
        y_box == vertices[1].y
    IN  [x |-> x_box, y |-> y_box,
         w |-> vertices[2].x - x_box,
         h |-> vertices[3].x - y_box]

\* line 146: output_box.add_object(0, 'selected area', 1.0, x, y, w, h, self.color)
SelectedArea(box) ==
    [id |-> 0, label |-> "selected area", confidence |-> 1,
     x |-> box.x, y |-> box.y, w |-> box.w, h |-> box.h, color |-> color]

\* line 135: the f-string text of the annotation, kept by what it was made from
AnnotationText(colors) == [text_of |-> colors]

\* ------------------------------------------------------------------------
\* Initial state: the task as __init__ leaves it
\* ------------------------------------------------------------------------
Init ==
    /\ pc = "idle"
    /\ runs = 0
    /\ param \in Credentials
    /\ client = None
    /\ environ \in {NotSet, "env.json"}
    /\ response = NoResponse
    /\ image = <<>>
    /\ x0 = 0
    /\ output0 = <<>>
    /\ output_dict = <<>>
    /\ output_box = <<>>
    /\ output3 = <<>>
    /\ error = "none"
    /\ trace = <<>>

Between == pc \in {"idle", "ended", "raised"}

\* an exception leaves run(): nothing after the raising statement is executed
Raise(exception) ==
    /\ pc' = "raised"
    /\ error' = exception

\* InferGoogleVisionImagePropertiesParam.set_values (lines 22-26), between runs
SetValues ==
    /\ Between
    /\ \E value \in Credentials :
        /\ value # param
        /\ param' = value
    /\ UNCHANGED <<pc, runs, client, environ, response, image, x0, output0,
                   output_dict, output_box, output3, error, trace>>

\* lines 68-81: begin_task_run, the input and the outputs; forward_input_image
\* puts the input image on output 3 and output_box.init empties the detection
\* output.  The locals of the new invocation start unassigned.
Begin ==
    /\ Between
    /\ runs < MaxRuns
    /\ runs' = runs + 1
    /\ pc' = "begun"
    /\ error' = "none"
    /\ response' = NoResponse
    /\ image' = <<>>
    /\ x0' = 0
    /\ output3' = <<"src_image">>
    /\ output_box' = <<>>
    /\ trace' = <<"begin_task_run", "forward_input_image", "init">>
    /\ UNCHANGED <<param, client, environ, output0, output_dict>>

\* Mutant of line 84: the client is built on every run
ClientMissingAlways == TRUE

\* line 84
ClientMissing == client = None

\* lines 84-87: the client is built when there is none; the constructor raises
\* when it finds no usable credentials
GetClient ==
    /\ pc = "begun"
    /\ IF ClientMissing
       THEN /\ IF param # ""
               THEN /\ environ' = param
                    /\ \/ /\ client' = "ImageAnnotatorClient"
                          /\ trace' = trace \o <<"os.environ", "ImageAnnotatorClient">>
                          /\ pc' = "client_ready"
                          /\ UNCHANGED error
                       \/ /\ trace' = trace \o <<"os.environ", "ImageAnnotatorClient">>
                          /\ Raise("DefaultCredentialsError")
                          /\ UNCHANGED client
               ELSE /\ UNCHANGED environ
                    /\ \/ /\ client' = "ImageAnnotatorClient"
                          /\ trace' = Append(trace, "ImageAnnotatorClient")
                          /\ pc' = "client_ready"
                          /\ UNCHANGED error
                       \/ /\ trace' = Append(trace, "ImageAnnotatorClient")
                          /\ Raise("DefaultCredentialsError")
                          /\ UNCHANGED client
       ELSE /\ pc' = "client_ready"
            /\ UNCHANGED <<client, environ, error, trace>>
    /\ UNCHANGED <<runs, param, response, image, x0, output0, output_dict,
                   output_box, output3>>

\* lines 90-98: the image is encoded to JPEG bytes; imencode raises on an image
\* it cannot encode
EncodeImage ==
    /\ pc = "client_ready"
    /\ \/ /\ pc' = "encoded"
          /\ trace' = Append(trace, "imencode")
          /\ UNCHANGED error
       \/ /\ trace' = Append(trace, "imencode")
          /\ Raise("cv2.error")
    /\ UNCHANGED <<runs, param, client, environ, response, image, x0, output0,
                   output_dict, output_box, output3>>

\* Mutant of lines 101-103: a failed request is issued again
CallServiceRetrying ==
    /\ pc = "encoded"
    /\ trace' = Append(trace, "image_properties")
    /\ \/ /\ \E colors \in RunPalettes, hints \in CropHints :
                response' = [colors |-> colors, crop_hints |-> hints]
          /\ pc' = "responded"
          /\ UNCHANGED error
       \/ /\ Len(trace) < 6
          /\ UNCHANGED <<pc, error, response>>
    /\ UNCHANGED <<runs, param, client, environ, image, x0, output0,
                   output_dict, output_box, output3>>

\* lines 101-103: the one request; the client library's error leaves run()
CallService ==
    /\ pc = "encoded"
    /\ trace' = Append(trace, "image_properties")
    /\ \/ /\ \E colors \in RunPalettes, hints \in CropHints :
                response' = [colors |-> colors, crop_hints |-> hints]
          /\ pc' = "responded"
          /\ UNCHANGED error
       \/ /\ Raise("ServiceError")
          /\ UNCHANGED response
    /\ UNCHANGED <<runs, param, client, environ, image, x0, output0,
                   output_dict, output_box, output3>>

\* lines 105-125: the blank image, the total, the drawing loop.  With entries
\* and a zero total the first division raises; with no entry the loop is empty
DrawStrip ==
    /\ pc = "responded"
    /\ LET color_data == response.colors
       IN  IF color_data # <<>> /\ PixelFractionTotal(color_data) = 0
           THEN /\ Raise("ZeroDivisionError")
                /\ UNCHANGED <<image, x0>>
           ELSE /\ image' = DrawColorBlocks(color_data)
                /\ x0' = IF color_data = <<>> THEN 0 ELSE image'[Len(color_data)].x1
                /\ pc' = "drawn"
                /\ UNCHANGED error
    /\ UNCHANGED <<runs, param, client, environ, response, output0,
                   output_dict, output_box, output3, trace>>

\* Mutant of lines 127-135: the outputs are not written at this point of run()
SetOutputsDeferred ==
    /\ pc = "drawn"
    /\ pc' = "outputs_set"
    /\ UNCHANGED <<runs, param, client, environ, response, image, x0, output0,
                   output_dict, output_box, output3, error, trace>>

\* lines 127-135: the strip to output 0, the annotation's text to output 1
SetOutputs ==
    /\ pc = "drawn"
    /\ output0' = <<image>>
    /\ output_dict' = << [key |-> "image_properties_annotation",
                          value |-> AnnotationText(response.colors)] >>
    /\ trace' = trace \o <<"set_image", "output_dict.data">>
    /\ pc' = "outputs_set"
    /\ UNCHANGED <<runs, param, client, environ, response, image, x0,
                   output_box, output3, error>>

\* lines 137-146: crop_hints[0] and vertices[0..2] raise IndexError when the
\* list is too short
ExtractRegion ==
    /\ pc = "outputs_set"
    /\ IF response.crop_hints = <<>> \/ Len(response.crop_hints[1]) < 3
       THEN /\ Raise("IndexError")
            /\ UNCHANGED <<output_box, trace>>
       ELSE /\ output_box' =
                  Append(output_box, SelectedArea(RegionBox(response.crop_hints[1])))
            /\ trace' = Append(trace, "add_object")
            /\ pc' = "region_added"
            /\ UNCHANGED error
    /\ UNCHANGED <<runs, param, client, environ, response, image, x0, output0,
                   output_dict, output3>>

\* line 149
EmitStepProgress ==
    /\ pc = "region_added"
    /\ trace' = Append(trace, "emit_step_progress")
    /\ pc' = "progress_emitted"
    /\ UNCHANGED <<runs, param, client, environ, response, image, x0, output0,
                   output_dict, output_box, output3, error>>

\* line 152
EndTaskRun ==
    /\ pc = "progress_emitted"
    /\ trace' = Append(trace, "end_task_run")
    /\ pc' = "ended"
    /\ UNCHANGED <<runs, param, client, environ, response, image, x0, output0,
                   output_dict, output_box, output3, error>>

Next ==
    \/ SetValues
    \/ Begin
    \/ GetClient
    \/ EncodeImage
    \/ CallService
    \/ DrawStrip
    \/ SetOutputs
    \/ ExtractRegion
    \/ EmitStepProgress
    \/ EndTaskRun

Spec == Init /\ [][Next]_vars

\* ------------------------------------------------------------------------
\* The strip renderer on its own: a first run that has just received its
\* response, for every palette of RenderPalettes, and the drawing step
\* ------------------------------------------------------------------------
InitRender ==
    /\ pc = "responded"
    /\ runs = 1
    /\ param = ""
    /\ client = "ImageAnnotatorClient"
    /\ environ = NotSet
    /\ \E colors \in RenderPalettes :
           response = [colors |-> colors, crop_hints |-> <<>>]
    /\ image = <<>>
    /\ x0 = 0
    /\ output0 = <<>>
    /\ output_dict = <<>>
    /\ output_box = <<>>
    /\ output3 = <<"src_image">>
    /\ error = "none"
    /\ trace = <<"begin_task_run", "forward_input_image", "init",
                 "ImageAnnotatorClient", "imencode", "image_properties">>

NextRender == DrawStrip

SpecRender == InitRender /\ [][NextRender]_vars

\* ------------------------------------------------------------------------
\* Properties
\* ------------------------------------------------------------------------
Count(calls, name) == Cardinality({ i \in 1..Len(calls) : calls[i] = name })

Has(name) == \E i \in 1..Len(trace) : trace[i] = name

Before(first, second) ==
    \E i, j \in 1..Len(trace) : i < j /\ trace[i] = first /\ trace[j] = second

\* the current run has its response: the request was made and did not fail
Responded == Has("image_properties") /\ error # "ServiceError"

RegionAdded == pc \in {"region_added", "progress_emitted", "ended"}

\* C1: for four corners in the order top-left, top-right, bottom-right,
\* bottom-left, the object added to the detection output has x = c0.x,
\* y = c0.y, w = c1.x - c0.x and h = c2.y - c0.y.
C1_RegionBoxFromCorners ==
    (RegionAdded /\ Len(response.crop_hints[1]) = 4) =>
        LET c == response.crop_hints[1]
            object == output_box[Len(output_box)]
        IN  /\ object.x = c[1].x
            /\ object.y = c[1].y
            /\ object.w = c[2].x - c[1].x
            /\ object.h = c[3].y - c[1].y

\* C2: for a non-empty palette with positive total, every pixel column of
\* [0, total_width) is painted by exactly one entry's block: no gap, no overlap.
C2_StripCoveredExactly ==
    (pc = "drawn" /\ response.colors # <<>>) =>
        \A column \in 0..(total_width - 1) :
            Cardinality({ i \in 1..Len(image) : Covers(image[i], column) }) = 1

\* C3: with an empty palette or a palette whose weights sum to zero, run()
\* fails in the drawing step and writes no strip to output 0; it never goes on
\* with a rendered image.
C3_DegeneratePaletteFails ==
    (/\ Responded
     /\ pc # "responded"
     /\ PixelFractionTotal(response.colors) = 0) =>
        /\ pc = "raised"
        /\ error \in {"DegenerateInputError", "ZeroDivisionError"}
        /\ ~Has("set_image")

\* C4: when the crop hint is missing or has fewer than 3 corners, region
\* extraction ends run() with MalformedRegionError, not with an IndexError.
C4_MalformedRegionError ==
    (/\ Responded
     /\ Has("output_dict.data")
     /\ pc # "outputs_set"
     /\ (response.crop_hints = <<>> \/ Len(response.crop_hints[1]) < 3)) =>
        /\ pc = "raised"
        /\ error = "MalformedRegionError"

\* the calls a step adds to the trace
NewCalls ==
    IF pc' = "begun" THEN trace' ELSE SubSeq(trace', Len(trace) + 1, Len(trace'))

Called(calls, name) == \E i \in 1..Len(calls) : calls[i] = name

\* what C5 says of one step
ClientReused ==
    /\ client # None =>
          /\ client' = client
          /\ environ' = environ
          /\ ~Called(NewCalls, "ImageAnnotatorClient")
          /\ ~Called(NewCalls, "os.environ")
    /\ (environ' # environ \/ Called(NewCalls, "os.environ")) =>
          /\ client = None
          /\ param # ""
          /\ environ' = param
    /\ client' # client =>
          /\ client = None
          /\ Called(NewCalls, "ImageAnnotatorClient")

\* C5: a run that gets past line 87 has a client; once self.client is set, no
\* step of any later run builds a client or writes the environment variable,
\* whatever the parameter is by then; the variable is written only by a run
\* that finds no client and has a non-empty parameter, and with that parameter.
C5_ClientBuiltOnce ==
    /\ [](pc \in {"client_ready", "encoded", "responded", "drawn", "outputs_set",
                  "region_added", "progress_emitted", "ended"} => client # None)
    /\ [][ClientReused]_vars

\* C5 witness: a second run found the client of the first and went on without
\* building one, although the parameter is now non-empty and differs from the
\* environment variable.
C5_Witness ==
    /\ runs = 2
    /\ pc = "client_ready"
    /\ client # None
    /\ param # ""
    /\ environ # param
    /\ ~Has("ImageAnnotatorClient")

\* the rectangles drawn for the palette with every pixel fraction times k
Scale(color_data, k) ==
    [i \in 1..Len(color_data) |->
        Entry(color_data[i].color, k * color_data[i].pixel_fraction)]

C7_ShortByLessThanPaletteSize ==
    (pc = "drawn" /\ response.colors # <<>>) =>
        /\ total_width - (Len(response.colors) - 1) <= x0
        /\ x0 <= total_width

\* C7 as amended: after the loop, for N >= 1 entries with positive total,
\* total_width - N <= x0 <= total_width: the cursor never passes the right
\* edge and stops short of it by at most N pixels.
C7_ShortByAtMostPaletteSize ==
    (pc = "drawn" /\ response.colors # <<>>) =>
        /\ total_width - Len(response.colors) <= x0
        /\ x0 <= total_width

\* C7 witness: a strip of three entries whose cursor stops 3 pixels short.
C7_Witness ==
    /\ pc = "drawn"
    /\ Len(response.colors) = 3
    /\ x0 = total_width - 3

\* C8: a run makes at most one request and a completed run exactly one; a
\* failed request ends the run at once, with that request as its last call
\* and none of the outputs written or changed.
C8_OneRequestPerRun ==
    /\ [](/\ Count(trace, "image_properties") <= 1
          /\ pc = "ended" => Count(trace, "image_properties") = 1
          /\ error = "ServiceError" =>
                /\ pc = "raised"
                /\ trace[Len(trace)] = "image_properties"
                /\ ~Has("set_image")
                /\ ~Has("output_dict.data")
                /\ ~Has("add_object")
                /\ output_box = <<>>
                /\ runs = 1 => (output0 = <<>> /\ output_dict = <<>>))
    /\ [][error' = "ServiceError" => UNCHANGED <<output0, output_dict, output_box>>]_vars

\* C8 witness: the request of a second run failed, after a first run that had
\* written its outputs.
C8_Witness ==
    /\ runs = 2
    /\ pc = "raised"
    /\ error = "ServiceError"
    /\ output0 # <<>>

\* C9: entry i paints exactly the columns x0_i <= column < x0_i + block_width_i,
\* x0_i the sum of the earlier block widths; an entry of width 0 paints nothing.
C9_HalfOpenBlocks ==
    pc = "drawn" =>
        LET widths == BlockWidths(response.colors)
        IN  \A i \in 1..Len(response.colors) :
                PaintedColumns(image[i]) =
                    { column \in 0..(total_width - 1) :
                        /\ SumUpTo(widths, i - 1) <= column
                        /\ column < SumUpTo(widths, i - 1) + widths[i] }

\* C10: outputs 0 and 1 are written before the region is extracted, and
\* emit_step_progress and end_task_run come only after the region was added;
\* a run that fails in region extraction has begun the task run, has written
\* outputs 0 and 1, has added no object and has called neither of the two.
C10_StepOrder ==
    /\ pc \in {"outputs_set", "region_added", "progress_emitted", "ended"} =>
            /\ Before("set_image", "output_dict.data")
            /\ output0 = <<image>>
    /\ Has("add_object") =>
            /\ Before("output_dict.data", "add_object")
            /\ Len(output_box) = 1
    /\ Has("emit_step_progress") => Before("add_object", "emit_step_progress")
    /\ Has("end_task_run") => Before("emit_step_progress", "end_task_run")
    /\ (pc = "raised" /\ error = "IndexError") =>
            /\ trace[1] = "begin_task_run"
            /\ Before("image_properties", "set_image")
            /\ Before("set_image", "output_dict.data")
            /\ output0 = <<image>>
            /\ output_dict = << [key |-> "image_properties_annotation",
                                 value |-> AnnotationText(response.colors)] >>
            /\ output_box = <<>>
            /\ ~Has("add_object")
            /\ ~Has("emit_step_progress")
            /\ ~Has("end_task_run")

\* C10 witness: a run failed in region extraction on a crop hint of two corners.
C10_Witness ==
    /\ pc = "raised"
    /\ error = "IndexError"
    /\ Len(response.crop_hints) = 1
    /\ Len(response.crop_hints[1]) = 2

====
